---- MODULE Spec2Model ----
(***************************************************************************)
(* The data_scribe plan / dispatch / compose pipeline.                     *)
(*                                                                         *)
(* Two deployments are modelled side by side:                              *)
(*   "supervisor" : supervisor.py + planner_agent.py + chat_interface.py   *)
(*   "all_in_one" : all_in_one.py                                          *)
(*                                                                         *)
(* A Python str is a sequence of tokens: the tag words, ":", the blank     *)
(* " " and opaque words.  strip, lower, startswith, split(':', 1) and      *)
(* "':' in s" are computed on that sequence.  A Python dict is a function  *)
(* whose DOMAIN is the set of keys present.  ResearchAgent matches inside  *)
(* words, so its query is a sequence of characters.  The schema graph is   *)
(* the node attributes and the edge set parseJson builds, the cache file   *)
(* is absent, cut short, or the pickle of a graph.                         *)
(*                                                                         *)
(* Spec         : the compiled graph of either deployment, turn by turn    *)
(* SpecCalls    : execute_plan, merge_context, create_plan and research    *)
(*                called on their own                                      *)
(* SpecDiscover : DiscoveryAgent.discover called again and again           *)
(***************************************************************************)
EXTENDS Integers, Sequences, FiniteSets, TLC

\* ------------------------------------------------------------------ bounds
MaxLines == 2
MaxTurns == 3
MaxPlan == 2
MaxHist == 2
MaxWords == 2
MaxCalls == 2
MaxTables == 2
MaxDatabaseSteps == 4

\* ------------------------------------------------------------ Python values
NonePlan == << <<"<None>">> >>
EmptyDict == [k \in {} |-> 0]

Get(d, k, default) == IF k \in DOMAIN d THEN d[k] ELSE default

Upd(d, k, v) == [x \in (DOMAIN d) \cup {k} |-> IF x = k THEN v ELSE d[x]]

Merge(d, e) == [x \in (DOMAIN d) \cup (DOMAIN e) |-> IF x \in DOMAIN e THEN e[x] ELSE d[x]]

\* ------------------------------------------------------------------ strings
IsSpace(t) == t = " "

RECURSIVE LStrip(_)
LStrip(s) == IF s # <<>> /\ IsSpace(Head(s)) THEN LStrip(Tail(s)) ELSE s

RECURSIVE RStrip(_)
RStrip(s) == IF s # <<>> /\ IsSpace(s[Len(s)]) THEN RStrip(SubSeq(s, 1, Len(s) - 1)) ELSE s

Strip(s) == RStrip(LStrip(s))

LowerTok(t) ==
    CASE t = "Inference" -> "inference"
      [] t = "General" -> "general"
      [] t = "Database" -> "database"
      [] t = "Research" -> "research"
      [] t = "Plan" -> "plan"
      [] t = "Yes" -> "yes"
      [] OTHER -> t

Lower(s) == [i \in 1..Len(s) |-> LowerTok(s[i])]

StartsWith(s, p) == Len(s) >= Len(p) /\ SubSeq(s, 1, Len(p)) = p

HasColon(s) == \E i \in 1..Len(s) : s[i] = ":"

FirstColon(s) == CHOOSE i \in 1..Len(s) : s[i] = ":" /\ \A j \in 1..(i - 1) : s[j] # ":"

\* s.split(':', 1): one part without a colon, else the text before and after the first
Split1(s) ==
    IF HasColon(s)
    THEN << SubSeq(s, 1, FirstColon(s) - 1), SubSeq(s, FirstColon(s) + 1, Len(s)) >>
    ELSE << s >>

\* ------------------------------------------------------------ planner agent
FallbackClarify == << <<"General", ":", " ", "I'd love to help you explore the database! What would you like to know?">> >>
FallbackError == << <<"General", ":", " ", "Error occurred while creating plan">> >>

\* the completion's content.split('\n'), blank lines and the 'plan:' header removed
CleanLines(lines) ==
    LET kept == SelectSeq(lines, LAMBDA l : Strip(l) # <<>> /\ ~(Lower(l) = <<"plan", ":">>))
    IN  [i \in 1..Len(kept) |-> Strip(kept[i])]

IsInferenceStep(step) ==
    /\ StartsWith(step, <<"Inference", ":">>)
    /\ Len(Split1(step)) = 2
    /\ Strip(Split1(step)[2]) # <<>>

IsGeneralStep(step) == StartsWith(step, <<"General", ":">>)

InferenceSteps(lines) == SelectSeq(CleanLines(lines), IsInferenceStep)

GeneralSteps(lines) == SelectSeq(CleanLines(lines), IsGeneralStep)

\* create_plan returning the empty list when nothing was kept
ParsePlanNoFallback(v, lines) ==
    InferenceSteps(lines) \o GeneralSteps(lines)

ParsePlan(v, lines) ==
    LET inference_steps == InferenceSteps(lines)
        general_steps == GeneralSteps(lines)
    IN  IF v = "supervisor"
        THEN IF inference_steps # <<>> THEN inference_steps \o general_steps
             ELSE IF general_steps # <<>> THEN general_steps
             ELSE FallbackClarify
        ELSE IF inference_steps # <<>> \/ general_steps # <<>> THEN inference_steps \o general_steps
             ELSE IF general_steps # <<>> THEN general_steps
             ELSE FallbackClarify

\* whether the object that calls self.llm.invoke has an llm attribute
PlannerHasLlm(v) == v = "supervisor"
SupervisorHasLlm(v) == v = "supervisor"

\* a completion: the call raised, or content that is not a str, or text lines
\* the whole body of create_plan is inside try / except Exception
RaisedPlan == << <<"<raised>">> >>

\* create_plan without its try / except
PlannerCreatePlanNoCatch(v, completion) ==
    IF ~PlannerHasLlm(v) \/ completion.kind # "text"
    THEN RaisedPlan
    ELSE ParsePlan(v, completion.lines)

PlannerCreatePlan(v, completion) ==
    IF ~PlannerHasLlm(v) \/ completion.kind # "text"
    THEN FallbackError
    ELSE ParsePlan(v, completion.lines)

\* --------------------------------------------------------------- dispatcher
StepType(step) == Strip(Lower(Split1(step)[1]))

StepContent(step) == Strip(Split1(step)[2])

IsType(step, t) == HasColon(step) /\ StepType(step) = <<t>>

\* the agent call of a step: what it can return, and whether it can raise
\* (DBAgent.query lets the executor's exception out; ResearchAgent.research and
\* all_in_one's InferenceAgent.query catch everything and return a text)
HandlerOutcomes(v, step) ==
    IF v = "supervisor" /\ IsType(step, "database")
    THEN {[raised |-> FALSE, text |-> "rows"], [raised |-> TRUE, text |-> "boom"]}
    ELSE IF v = "supervisor" /\ IsType(step, "research")
    THEN {[raised |-> FALSE, text |-> "Research Findings"]}
    ELSE IF v = "all_in_one" /\ IsType(step, "inference")
    THEN {[raised |-> FALSE, text |-> "rows"], [raised |-> FALSE, text |-> "Error processing query: boom"]}
    ELSE {[raised |-> FALSE, text |-> ""]}

\* one outcome per step of the plan
RECURSIVE OutcomeChoices(_, _)
OutcomeChoices(v, plan) ==
    IF plan = NonePlan \/ plan = <<>> THEN {<<>>}
    ELSE {<<first>> \o rest : first \in HandlerOutcomes(v, Head(plan)),
                              rest \in OutcomeChoices(v, Tail(plan))}

HandlerBlock(step, out, failed) ==
    IF out.raised
    THEN [step |-> step, tag |-> "Error", text |-> <<failed, out.text>>]
    ELSE [step |-> step, tag |-> "Result", text |-> <<out.text>>]

GeneralBlock(step) == [step |-> step, tag |-> "Result", text |-> StepContent(step)]

BlocksOf(plan, o, t, failed) ==
    LET idx == SelectSeq([i \in 1..Len(plan) |-> i], LAMBDA i : IsType(plan[i], t))
    IN  [j \in 1..Len(idx) |->
            IF t = "general" THEN GeneralBlock(plan[idx[j]])
            ELSE HandlerBlock(plan[idx[j]], o[idx[j]], failed)]

AllResults(v, plan, o) ==
    IF v = "supervisor"
    THEN BlocksOf(plan, o, "database", "Database query failed - ")
           \o BlocksOf(plan, o, "research", "Research failed - ")
           \o BlocksOf(plan, o, "general", "")
    ELSE BlocksOf(plan, o, "inference", "Query failed - ")
           \o BlocksOf(plan, o, "general", "")

NoStepsText == "No results were generated as no valid steps were found."

\* execute_plan without the try / except around each agent call
ExecutePlanResultAbort(v, plan, o) ==
    IF plan = NonePlan
    THEN [kind |-> "error", blocks |-> <<>>, text |-> "Error executing steps: 'NoneType' object is not iterable"]
    ELSE IF \E i \in 1..Len(plan) : o[i].raised
    THEN [kind |-> "error", blocks |-> <<>>, text |-> "Error executing steps: boom"]
    ELSE IF AllResults(v, plan, o) = <<>>
    THEN [kind |-> "text", blocks |-> <<>>, text |-> NoStepsText]
    ELSE [kind |-> "blocks", blocks |-> AllResults(v, plan, o), text |-> ""]

\* the db_results value execute_plan stores
ExecutePlanResult(v, plan, o) ==
    IF plan = NonePlan
    THEN [kind |-> "error", blocks |-> <<>>, text |-> "Error executing steps: 'NoneType' object is not iterable"]
    ELSE IF AllResults(v, plan, o) = <<>>
    THEN [kind |-> "text", blocks |-> <<>>, text |-> NoStepsText]
    ELSE [kind |-> "blocks", blocks |-> AllResults(v, plan, o), text |-> ""]

\* ----------------------------------------------------------- research agent
\* ResearchAgent works on the characters of its query: here a str is the
\* sequence of its characters
InfoSql == "SQL is a standard language for storing, manipulating and retrieving data in databases."
InfoDatabaseDesign == "Database design best practices include: ..."
InfoBestPractices == "Database best practices include: ..."
InfoPerformance == "Database performance optimization includes: ..."
InfoNormalization == "Database normalization rules: ..."
InfoIndexing == "Indexing strategies: ..."

\* mock_knowledge_base, in the insertion order items() yields
mock_knowledge_base ==
    << [topic |-> <<"s", "q", "l">>, info |-> InfoSql],
       [topic |-> <<"d", "a", "t", "a", "b", "a", "s", "e", "_", "d", "e", "s", "i", "g", "n">>, info |-> InfoDatabaseDesign],
       [topic |-> <<"b", "e", "s", "t", "_", "p", "r", "a", "c", "t", "i", "c", "e", "s">>, info |-> InfoBestPractices],
       [topic |-> <<"p", "e", "r", "f", "o", "r", "m", "a", "n", "c", "e">>, info |-> InfoPerformance],
       [topic |-> <<"n", "o", "r", "m", "a", "l", "i", "z", "a", "t", "i", "o", "n">>, info |-> InfoNormalization],
       [topic |-> <<"i", "n", "d", "e", "x", "i", "n", "g">>, info |-> InfoIndexing] >>

LowerChar(c) ==
    CASE c = "I" -> "i"
      [] c = "M" -> "m"
      [] c = "S" -> "s"
      [] c = "Q" -> "q"
      [] c = "L" -> "l"
      [] c = "A" -> "a"
      [] c = "H" -> "h"
      [] OTHER -> c

LowerChars(s) == [i \in 1..Len(s) |-> LowerChar(s[i])]

\* `needle in hay` on str
Contains(hay, needle) ==
    \E i \in 0..(Len(hay) - Len(needle)) : SubSeq(hay, i + 1, i + Len(needle)) = needle

HasChar(s, c) == \E i \in 1..Len(s) : s[i] = c

FirstChar(s, c) == CHOOSE i \in 1..Len(s) : s[i] = c /\ \A j \in 1..(i - 1) : s[j] # c

\* s.split(c)
RECURSIVE SplitOn(_, _)
SplitOn(s, c) ==
    IF HasChar(s, c)
    THEN <<SubSeq(s, 1, FirstChar(s, c) - 1)>> \o SplitOn(SubSeq(s, FirstChar(s, c) + 1, Len(s)), c)
    ELSE <<s>>

\* any(keyword in query for keyword in topic.split('_')), the query as typed
TopicMatchesNoLower(topic, query) ==
    \E k \in 1..Len(SplitOn(topic, "_")) : Contains(query, SplitOn(topic, "_")[k])

\* any(keyword in query.lower() for keyword in topic.split('_'))
TopicMatches(topic, query) ==
    \E k \in 1..Len(SplitOn(topic, "_")) : Contains(LowerChars(query), SplitOn(topic, "_")[k])

ResearchHeader == "Research Findings:"
ResearchRule == "-------------------"
NoInformation == "I found no specific information about this topic in my knowledge base."
ResearchError == "Research Error: 'NoneType' object has no attribute 'lower'"
ResearchRaised == <<"<raised>">>

ResponseParts(query) ==
    LET matching == SelectSeq(mock_knowledge_base, LAMBDA entry : TopicMatches(entry.topic, query))
    IN  IF matching = <<>> THEN <<NoInformation>>
        ELSE [i \in 1..Len(matching) |-> matching[i].info]

\* research stopping at the first topic that matches
ResearchFirstMatch(q) ==
    IF q.kind # "str" THEN <<ResearchError>>
    ELSE <<ResearchHeader, ResearchRule, ResponseParts(q.chars)[1], ResearchRule>>

\* ResearchAgent.research: the lines of the text it returns ('\n'.join of them)
Research(q) ==
    IF q.kind # "str" THEN <<ResearchError>>
    ELSE <<ResearchHeader, ResearchRule>> \o ResponseParts(q.chars) \o <<ResearchRule>>

\* ------------------------------------------------------ conversation context
Last(s) == s[Len(s)]

\* new_history[-1] is evaluated only when old_history is not empty
MergeContextRaises(old_context, new_context) ==
    Get(old_context, "history", <<>>) # <<>> /\ Get(new_context, "history", <<>>) = <<>>

\* merge_context dropping the last old entry when it appends
MergeContextDropLastOld(old_context, new_context) ==
    LET old_history == Get(old_context, "history", <<>>)
        new_history == Get(new_context, "history", <<>>)
    IN  [history |-> IF old_history = <<>> \/ Last(old_history) # Last(new_history)
                     THEN SubSeq(old_history, 1, Len(old_history) - 1) \o new_history
                     ELSE old_history,
         last_question |-> Get(new_context, "last_question", Get(old_context, "last_question", "")),
         last_response |-> Get(new_context, "last_response", Get(old_context, "last_response", ""))]

MergeContext(old_context, new_context) ==
    LET old_history == Get(old_context, "history", <<>>)
        new_history == Get(new_context, "history", <<>>)
    IN  [history |-> IF old_history = <<>> \/ Last(old_history) # Last(new_history)
                     THEN old_history \o new_history
                     ELSE old_history,
         last_question |-> Get(new_context, "last_question", Get(old_context, "last_question", "")),
         last_response |-> Get(new_context, "last_response", Get(old_context, "last_response", ""))]

InitialContext == [history |-> <<>>, last_question |-> "", last_response |-> ""]

\* --------------------------------------------------------- schema discovery
\* A table or column name is a sequence of words, so that tableName +
\* columnName is a concatenation.  The output of the discovery prompt is a
\* sequence of lines; a line is a JSON document, or text that is not JSON.
NoneGraph == [none |-> TRUE]
NoReference == [none |-> TRUE, table |-> <<>>, column |-> <<>>]

Reference(t, c) == [none |-> FALSE, table |-> t, column |-> c]

Column(name, type, optional, fk) ==
    [columnName |-> name, columnType |-> type, isOptional |-> optional, foreignKeyReference |-> fk]

Table(name, columns) == [tableName |-> name, columns |-> columns]

\* the schemas the discovery prompt is answered with
SchemaEmpty == <<>>

SchemaOneTable == << Table(<<"artist">>, << Column(<<"id">>, "INTEGER", FALSE, NoReference) >>) >>

SchemaForeignKey ==
    << Table(<<"album">>, << Column(<<"id">>, "INTEGER", FALSE, NoReference),
                             Column(<<"artist", "id">>, "INTEGER", TRUE, Reference(<<"artist">>, <<"id">>)) >>),
       Table(<<"artist">>, << Column(<<"id">>, "INTEGER", FALSE, NoReference) >>) >>

SchemaDanglingReference ==
    << Table(<<"album">>, << Column(<<"artist", "id">>, "INTEGER", TRUE, Reference(<<"artist">>, <<"id">>)) >>) >>

Schemas == {SchemaEmpty, SchemaOneTable, SchemaForeignKey, SchemaDanglingReference}

Fence == [kind |-> "text", data |-> <<>>]

JsonLine(data) == [kind |-> "json", data |-> data]

Outputs ==
    {<<Fence, JsonLine(data), Fence>> : data \in Schemas}
      \cup {<<JsonLine(SchemaOneTable)>>, <<Fence, Fence, Fence>>}

\* agent_executor.invoke(...): it raises, or returns a dict with the key 'output'
Responses ==
    {[kind |-> "raise", output |-> <<>>]} \cup {[kind |-> "output", output |-> o] : o \in Outputs}

ParseRaised == [raised |-> TRUE]

\* output_[output_.find('\n') + 1 : output_.rfind('\n')]: the lines between the
\* first and the last; without a newline find and rfind give -1 and the slice
\* is the text less its last character, which is no JSON document
JsonSlice(output_) ==
    IF Len(output_) = 1 THEN <<Fence>> ELSE SubSeq(output_, 2, Len(output_) - 1)

JsonLoadsRaises(j) == ~(Len(j) = 1 /\ j[1].kind = "json")

\* the columns of all tables in the order the loops visit them
FlatColumns(data) ==
    LET F[i \in 0..Len(data)] ==
            IF i = 0 THEN <<>>
            ELSE F[i - 1] \o [c \in 1..Len(data[i].columns) |->
                                 [table |-> i, key |-> data[i].tableName \o data[i].columns[c].columnName,
                                  column |-> data[i].columns[c]]]
    IN  F[Len(data)]

\* columnIds starts at len(data) + 1 and is incremented before each use
ColumnId(data, k) == Len(data) + 1 + k

\* canonicalColumns[key]: the id of the last column stored under the key
HasCanonical(data, key) == \E k \in 1..Len(FlatColumns(data)) : FlatColumns(data)[k].key = key

CanonicalColumn(data, key) ==
    LET flat == FlatColumns(data)
        k == CHOOSE k \in 1..Len(flat) :
                 flat[k].key = key /\ \A m \in (k + 1)..Len(flat) : flat[m].key # key
    IN  ColumnId(data, k)

ReferenceKey(column) == column.foreignKeyReference.table \o column.foreignKeyReference.column

\* the second loop of parseJson raises KeyError for a reference to no column
ForeignKeyRaises(data) ==
    \E k \in 1..Len(FlatColumns(data)) :
        /\ ~FlatColumns(data)[k].column.foreignKeyReference.none
        /\ ~HasCanonical(data, ReferenceKey(FlatColumns(data)[k].column))

\* parseJson without the edge from a table to each of its columns
BuildGraphNoOwnerEdges(data) ==
    LET flat == FlatColumns(data)
    IN  [nodes |-> [id \in (1..Len(data)) \cup {ColumnId(data, k) : k \in 1..Len(flat)} |->
                       IF id <= Len(data)
                       THEN [tableName |-> data[id].tableName]
                       ELSE [columnName |-> flat[id - Len(data) - 1].column.columnName,
                             columnType |-> flat[id - Len(data) - 1].column.columnType,
                             isOptional |-> flat[id - Len(data) - 1].column.isOptional]],
         edges |-> {{CanonicalColumn(data, flat[k].key),
                     CanonicalColumn(data, ReferenceKey(flat[k].column))} :
                       k \in {m \in 1..Len(flat) : ~flat[m].column.foreignKeyReference.none}}]

\* nx.Graph: the attributes of each node, and the edges as sets of end points
BuildGraph(data) ==
    LET flat == FlatColumns(data)
    IN  [nodes |-> [id \in (1..Len(data)) \cup {ColumnId(data, k) : k \in 1..Len(flat)} |->
                       IF id <= Len(data)
                       THEN [tableName |-> data[id].tableName]
                       ELSE [columnName |-> flat[id - Len(data) - 1].column.columnName,
                             columnType |-> flat[id - Len(data) - 1].column.columnType,
                             isOptional |-> flat[id - Len(data) - 1].column.isOptional]],
         edges |-> {{flat[k].table, ColumnId(data, k)} : k \in 1..Len(flat)}
                     \cup {{CanonicalColumn(data, flat[k].key),
                            CanonicalColumn(data, ReferenceKey(flat[k].column))} :
                              k \in {m \in 1..Len(flat) : ~flat[m].column.foreignKeyReference.none}}]

\* DiscoveryAgent.parseJson
ParseJson(output_) ==
    IF JsonLoadsRaises(JsonSlice(output_)) THEN ParseRaised
    ELSE IF ForeignKeyRaises(JsonSlice(output_)[1].data) THEN ParseRaised
    ELSE BuildGraph(JsonSlice(output_)[1].data)

\* pickle of an nx.Graph: its node dict and its adjacency dict
PickleNoAdjacency(graph) ==
    [_node |-> graph.nodes, _adj |-> [n \in DOMAIN graph.nodes |-> {}]]

Pickle(graph) ==
    [_node |-> graph.nodes,
     _adj |-> [n \in DOMAIN graph.nodes |-> {m \in DOMAIN graph.nodes : {n, m} \in graph.edges}]]

Unpickle(blob) ==
    [nodes |-> blob._node,
     edges |-> UNION {{{n, m} : m \in blob._adj[n]} : n \in DOMAIN blob._adj}]

\* the file at config.graph_cache_path
FileAbsent == [kind |-> "absent"]
FilePartial == [kind |-> "partial"]

FilePickle(graph) == [kind |-> "pickle", blob |-> Pickle(graph)]

\* load_graph_db that never finds a graph
LoadGraphDbNone(file) == NoneGraph

\* load_graph_db: None when the file is absent or pickle.load raises
LoadGraphDb(file) == IF file.kind = "pickle" THEN Unpickle(file.blob) ELSE NoneGraph

\* save_graph_db: open(path, 'wb') raises and the file stays, or pickle.dump
\* raises and the file is left cut short, or the file holds the pickle
SaveOutcomes == {"saved", "open raised", "dump raised"}

SaveGraphDb(file, graph, save) ==
    CASE save = "saved" -> FilePickle(graph)
      [] save = "open raised" -> file
      [] OTHER -> FilePartial

\* DiscoveryAgent.discover(*args): `args` are the arguments of the call; the
\* method takes none, and a call with one raises TypeError before its body
DiscoverArgs == {<<>>, <<"forceRefresh">>}

\* the exception parseJson raises on the output, "" when it returns
ParseError(output_) ==
    IF JsonLoadsRaises(JsonSlice(output_)) THEN "JSONDecodeError"
    ELSE IF ForeignKeyRaises(JsonSlice(output_)[1].data) THEN "KeyError"
    ELSE ""

\* discover keeping an empty graph when the output does not parse
DiscoverParseTolerant(args, file, response, save) ==
    LET cached_graph == LoadGraphDb(file)
        graph == IF ParseJson(response.output) = ParseRaised
                 THEN BuildGraph(SchemaEmpty) ELSE ParseJson(response.output)
    IN  IF args # <<>>
        THEN [raised |-> TRUE, error |-> "TypeError", out |-> NoneGraph, prompted |-> FALSE, file |-> file]
        ELSE IF cached_graph # NoneGraph
        THEN [raised |-> FALSE, error |-> "", out |-> cached_graph, prompted |-> FALSE, file |-> file]
        ELSE IF response.kind = "raise"
        THEN [raised |-> TRUE, error |-> "completion", out |-> NoneGraph, prompted |-> TRUE, file |-> file]
        ELSE [raised |-> FALSE, error |-> ParseError(response.output), out |-> graph, prompted |-> TRUE,
              file |-> SaveGraphDb(file, graph, save)]

Discover(args, file, response, save) ==
    LET cached_graph == LoadGraphDb(file)
        graph == ParseJson(response.output)
    IN  IF args # <<>>
        THEN [raised |-> TRUE, error |-> "TypeError", out |-> NoneGraph, prompted |-> FALSE, file |-> file]
        ELSE IF cached_graph # NoneGraph
        THEN [raised |-> FALSE, error |-> "", out |-> cached_graph, prompted |-> FALSE, file |-> file]
        ELSE IF response.kind = "raise"
        THEN [raised |-> TRUE, error |-> "completion", out |-> NoneGraph, prompted |-> TRUE, file |-> file]
        ELSE IF graph = ParseRaised
        THEN [raised |-> TRUE, error |-> ParseError(response.output), out |-> NoneGraph,
              prompted |-> TRUE, file |-> file]
        ELSE [raised |-> FALSE, error |-> "", out |-> graph, prompted |-> TRUE,
              file |-> SaveGraphDb(file, graph, save)]

\* ----------------------------------------------------------- graph analysis
\* InferenceAgent.analyze_question_with_graph of all_in_one.py; names and the
\* question are sequences of characters
\* s.rstrip('s'): every trailing 's' is removed
RECURSIVE RStripS(_)
RStripS(s) == IF s # <<>> /\ s[Len(s)] = "s" THEN RStripS(SubSeq(s, 1, Len(s) - 1)) ELSE s

TableMentioned(table_name, question_lower) ==
    \/ Contains(question_lower, table_name)
    \/ Contains(question_lower, RStripS(table_name))
    \/ Contains(question_lower, table_name \o <<"s">>)

\* the nodes in the order db_graph.nodes() and db_graph.neighbors() yield
\* them: parseJson adds them with growing ids
RECURSIVE Ascending(_)
Ascending(S) ==
    IF S = {} THEN <<>>
    ELSE LET least == CHOOSE n \in S : \A m \in S : n <= m
         IN  <<least>> \o Ascending(S \ {least})

Adjacent(db_graph, node) == {m \in DOMAIN db_graph.nodes : {node, m} \in db_graph.edges}

IsTableNode(db_graph, node) == "tableName" \in DOMAIN db_graph.nodes[node]

IsColumnNode(db_graph, node) == "columnName" \in DOMAIN db_graph.nodes[node]

RelevantColumns(db_graph, node, question_lower) ==
    LET mentioned == SelectSeq(Ascending(Adjacent(db_graph, node)),
                               LAMBDA neighbor :
                                  /\ IsColumnNode(db_graph, neighbor)
                                  /\ Contains(question_lower, LowerChars(db_graph.nodes[neighbor].columnName)))
    IN  [i \in 1..Len(mentioned) |->
            [name |-> db_graph.nodes[mentioned[i]].columnName,
             type |-> db_graph.nodes[mentioned[i]].columnType,
             table |-> db_graph.nodes[node].tableName]]

RelevantTables(db_graph, question_lower) ==
    LET relevant == SelectSeq(Ascending(DOMAIN db_graph.nodes),
                              LAMBDA node :
                                 /\ IsTableNode(db_graph, node)
                                 /\ TableMentioned(LowerChars(db_graph.nodes[node].tableName), question_lower))
    IN  [i \in 1..Len(relevant) |->
            [name |-> db_graph.nodes[relevant[i]].tableName,
             columns |-> RelevantColumns(db_graph, relevant[i], question_lower)]]

\* table_nodes: the nodes whose tableName is the name of a relevant table
TableNodesNamed(db_graph, tables) ==
    SelectSeq(Ascending(DOMAIN db_graph.nodes),
              LAMBDA n : IsTableNode(db_graph, n)
                           /\ \E i \in 1..Len(tables) : tables[i].name = db_graph.nodes[n].tableName)

\* nx.shortest_path
RECURSIVE Within(_, _, _)
Within(db_graph, start, k) ==
    IF k = 0 THEN {start}
    ELSE Within(db_graph, start, k - 1)
           \cup UNION {Adjacent(db_graph, n) : n \in Within(db_graph, start, k - 1)}

HasPath(db_graph, start, end) == end \in Within(db_graph, start, Cardinality(DOMAIN db_graph.nodes))

Distance(db_graph, start, end) ==
    CHOOSE k \in 0..Cardinality(DOMAIN db_graph.nodes) :
        /\ end \in Within(db_graph, start, k)
        /\ k = 0 \/ end \notin Within(db_graph, start, k - 1)

\* every shortest path; which one nx.shortest_path returns is left open
RECURSIVE ShortestPaths(_, _, _)
ShortestPaths(db_graph, start, end) ==
    IF start = end THEN {<<start>>}
    ELSE UNION {{<<start>> \o p : p \in ShortestPaths(db_graph, n, end)} :
                   n \in {m \in Adjacent(db_graph, start) :
                             /\ HasPath(db_graph, m, end)
                             /\ Distance(db_graph, m, end) = Distance(db_graph, start, end) - 1}}

\* the path with the column nodes left out
NamedPathTablesOnly(db_graph, path) ==
    LET kept == SelectSeq(path, LAMBDA n : IsTableNode(db_graph, n))
    IN  [i \in 1..Len(kept) |-> [label |-> "Table", name |-> db_graph.nodes[kept[i]].tableName]]

NamedPath(db_graph, path) ==
    [i \in 1..Len(path) |->
        IF IsTableNode(db_graph, path[i])
        THEN [label |-> "Table", name |-> db_graph.nodes[path[i]].tableName]
        ELSE [label |-> "Column", name |-> db_graph.nodes[path[i]].columnName]]

\* the pairs (table_nodes[i], a later table node) in the order of the two loops
NodePairs(table_nodes) ==
    LET P[i \in 0..Len(table_nodes)] ==
            IF i = 0 THEN <<>>
            ELSE P[i - 1] \o [j \in 1..(Len(table_nodes) - i) |-> <<table_nodes[i], table_nodes[i + j]>>]
    IN  P[Len(table_nodes)]

RECURSIVE PossiblePaths(_, _)
PossiblePaths(db_graph, pairs) ==
    IF pairs = <<>> THEN {<<>>}
    ELSE IF ~HasPath(db_graph, Head(pairs)[1], Head(pairs)[2])
    THEN PossiblePaths(db_graph, Tail(pairs))
    ELSE {<<NamedPath(db_graph, p)>> \o rest :
             p \in ShortestPaths(db_graph, Head(pairs)[1], Head(pairs)[2]),
             rest \in PossiblePaths(db_graph, Tail(pairs))}

\* the analysis dicts the call can return
AnalyzeQuestionWithGraph(db_graph, question) ==
    LET question_lower == LowerChars(question)
        tables == RelevantTables(db_graph, question_lower)
    IN  {[tables |-> tables, relationships |-> <<>>, columns |-> <<>>, possible_paths |-> paths] :
            paths \in IF Len(tables) > 1
                      THEN PossiblePaths(db_graph, NodePairs(TableNodesNamed(db_graph, tables)))
                      ELSE {<<>>}}

\* ---------------------------------------------------------- graph state
VARIABLES variant, pc, state, chat_context, main_state, turns, trace, call, turnlog, cache, discoveries

vars == <<variant, pc, state, chat_context, main_state, turns, trace, call, turnlog, cache, discoveries>>

Questions == {"qa", "qb"}
Answers == {"r1", "r2"}
Raise == "<raise>"
RejectedText == "No problems, how can I help you next?"

\* lines a completion can hold
LineCatalogue ==
    { <<"Inference", ":", " ", "count">>,
      <<"Inference", ":", " ">>,
      <<" ", "General", ":", " ", "hello", " ">>,
      <<"General", ":">>,
      <<"Database", ":", " ", "tables">>,
      <<"Plan", ":">>,
      <<"no colon here">>,
      <<>> }

Texts == UNION {[1..n -> LineCatalogue] : n \in 1..MaxLines}

Completions ==
    {[kind |-> "raise", lines |-> <<>>], [kind |-> "nontext", lines |-> <<>>]}
      \cup {[kind |-> "text", lines |-> t] : t \in Texts}

\* a channel with a reducer folds every written value into the stored one
WriteRaises(v, cur, upd) ==
    v = "supervisor" /\ "context" \in DOMAIN upd
      /\ MergeContextRaises(Get(cur, "context", EmptyDict), upd.context)

Write(v, cur, upd) ==
    [k \in (DOMAIN cur) \cup (DOMAIN upd) |->
        IF k \notin DOMAIN upd THEN cur[k]
        ELSE IF v = "supervisor" /\ k = "context"
        THEN MergeContext(Get(cur, "context", EmptyDict), upd[k])
        ELSE IF v = "all_in_one" /\ k = "db_graph" /\ Get(cur, "db_graph", NoneGraph) # NoneGraph
        THEN cur[k]
        ELSE IF v = "all_in_one" /\ k = "plan" /\ upd[k] = NonePlan /\ "plan" \in DOMAIN cur
        THEN cur[k]
        ELSE upd[k]]

PlanIsNone(st) == "plan" \notin DOMAIN st \/ st.plan = NonePlan

NoCall == [node |-> "", raised |-> FALSE, arg |-> <<>>, out |-> <<>>]

\* what an earlier run can have left at the cache path
InitialFiles == {FileAbsent, FilePartial, FilePickle(BuildGraph(SchemaForeignKey))}

Init ==
    /\ variant \in {"supervisor", "all_in_one"}
    /\ pc = "idle"
    /\ state = EmptyDict
    /\ chat_context = InitialContext
    /\ main_state = EmptyDict
    /\ turns = 0
    /\ trace = <<>>
    /\ call = NoCall
    /\ turnlog = <<>>
    /\ cache \in IF variant = "all_in_one" THEN InitialFiles ELSE {FileAbsent}
    /\ discoveries = <<>>

\* a node returned `upd`: its keys are written to the channels, then the edge is taken
NodeReturns(node, upd, next, arg, out) ==
    /\ trace' = Append(trace, node)
    /\ IF WriteRaises(variant, state, upd)
       THEN /\ state' = state
            /\ pc' = "raised"
            /\ call' = [node |-> "merge_context", raised |-> TRUE, arg |-> arg, out |-> out]
       ELSE /\ state' = Write(variant, state, upd)
            /\ pc' = next
            /\ call' = [node |-> node, raised |-> FALSE, arg |-> arg, out |-> out]

NodeRaises(node, arg) ==
    /\ trace' = Append(trace, node)
    /\ state' = state
    /\ pc' = "raised"
    /\ call' = [node |-> node, raised |-> TRUE, arg |-> arg, out |-> <<>>]

\* DatabaseChat.get_response / the __main__ script: graph.invoke(input)
GetResponse ==
    /\ pc = "idle"
    /\ turns < MaxTurns
    /\ \E q \in Questions :
         state' = IF variant = "supervisor"
                  THEN Write(variant, EmptyDict, [question |-> q, context |-> chat_context])
                  ELSE Write(variant, EmptyDict, Upd(main_state, "question", q))
    /\ pc' = IF variant = "supervisor" THEN "create_plan" ELSE "classify_input"
    /\ turns' = turns + 1
    /\ trace' = <<>>
    /\ call' = NoCall
    /\ UNCHANGED <<variant, chat_context, main_state, turnlog, cache, discoveries>>

\* all_in_one.py: classify_user_input (its own ChatOpenAI instance)
Classifications == {"DATABASE_QUERY", "GREETING"}

ClassifyInput ==
    /\ pc = "classify_input"
    /\ \E c \in Classifications \cup {Raise} :
         IF c = Raise
         THEN NodeRaises("classify_input", c)
         ELSE NodeReturns("classify_input", Upd(state, "input_type", c),
                          IF c = "DATABASE_QUERY" THEN "discover_database" ELSE "generate_response",
                          c, c)
    /\ UNCHANGED <<variant, chat_context, main_state, turns, turnlog, cache, discoveries>>

\* a discover call as the log keeps it
Discovery(args, before, d) ==
    [deleted |-> FALSE, args |-> args, before |-> before, after |-> d.file,
     prompted |-> d.prompted, raised |-> d.raised, error |-> d.error, out |-> d.out]

\* all_in_one.py: discover_database, which calls DiscoveryAgent().discover()
DiscoverDatabase ==
    /\ pc = "discover_database"
    /\ IF Get(state, "db_graph", NoneGraph) # NoneGraph
       THEN /\ NodeReturns("discover_database", state, "create_plan", "kept", state.db_graph)
            /\ UNCHANGED <<cache, discoveries>>
       ELSE \E response \in Responses, save \in SaveOutcomes :
               LET d == Discover(<<>>, cache, response, save)
               IN  /\ IF d.raised
                      THEN NodeRaises("discover_database", response.kind)
                      ELSE NodeReturns("discover_database", Upd(state, "db_graph", d.out),
                                       "create_plan",
                                       IF d.prompted THEN "discovered" ELSE "cache hit", d.out)
                   /\ cache' = d.file
                   /\ discoveries' = Append(discoveries, Discovery(<<>>, cache, d))
    /\ UNCHANGED <<variant, chat_context, main_state, turns, turnlog>>

\* SupervisorAgent.create_plan of either file, PlannerAgent.create_plan inside it
\* what PlannerAgent.create_plan returns, over every completion of the call
PlannerResults ==
    [v \in {"supervisor", "all_in_one"} |->
        {[kind |-> c.kind, plan |-> PlannerCreatePlan(v, c)] : c \in Completions}]

CreatePlan ==
    /\ pc = "create_plan"
    /\ \E res \in PlannerResults[variant] :
         LET plan == res.plan
             db_steps == SelectSeq(plan, LAMBDA step : StartsWith(step, <<"Database", ":">>))
             all_general == \A i \in 1..Len(plan) : StartsWith(plan[i], <<"General", ":">>)
             asks == variant = "supervisor" /\ plan # RaisedPlan /\ ~all_general /\ Len(db_steps) > 3
         IN  \E confirmation \in IF asks THEN {"yes", "no"} ELSE {"not asked"} :
                IF plan = RaisedPlan
                THEN NodeRaises("create_plan", res.kind)
                ELSE IF asks /\ confirmation # "yes"
                THEN NodeReturns("create_plan",
                                 Merge(state, [plan |-> NonePlan, response |-> RejectedText]),
                                 "generate_response", res.kind, plan)
                ELSE NodeReturns("create_plan", Upd(state, "plan", plan),
                                 "execute_plan", res.kind, plan)
    /\ UNCHANGED <<variant, chat_context, main_state, turns, turnlog, cache, discoveries>>

\* SupervisorAgent.execute_plan of either file
ExecutePlan ==
    /\ pc = "execute_plan"
    /\ \E o \in OutcomeChoices(variant, state.plan) :
         NodeReturns("execute_plan",
                     Upd(state, "db_results", ExecutePlanResult(variant, state.plan, o)),
                     "generate_response", state.plan, o)
    /\ UNCHANGED <<variant, chat_context, main_state, turns, turnlog, cache, discoveries>>

\* generate_response appending the entry without refreshing last_question
NewContextStaleLast(st, r) ==
    LET context == Get(st, "context", EmptyDict)
    IN  IF Get(context, "history", <<>>) = <<>> \/ st.question # Get(context, "last_question", "")
        THEN [history |-> Get(context, "history", <<>>) \o <<[question |-> st.question, response |-> r]>>,
              last_question |-> Get(context, "last_question", ""),
              last_response |-> r]
        ELSE context

\* what generate_response returns for a completion `r`
NewContext(st, r) ==
    LET context == Get(st, "context", EmptyDict)
    IN  IF Get(context, "history", <<>>) = <<>> \/ st.question # Get(context, "last_question", "")
        THEN [history |-> Get(context, "history", <<>>) \o <<[question |-> st.question, response |-> r]>>,
              last_question |-> st.question,
              last_response |-> r]
        ELSE context

\* generate_response without the early return for a rejected plan
NoExistingResponse(v, st) == FALSE

UsesExistingResponse(v, st) == v = "supervisor" /\ PlanIsNone(st) /\ "response" \in DOMAIN st

GenerateResponseUpdate(v, st, r) ==
    IF v = "supervisor"
    THEN Merge(st, [response |-> r, context |-> NewContext(st, r)])
    ELSE Merge(st, [response |-> r, plan |-> <<>>])

\* SupervisorAgent.generate_response of either file
GenerateResponse ==
    /\ pc = "generate_response"
    /\ \E r \in Answers \cup {Raise} :
         IF UsesExistingResponse(variant, state)
         THEN NodeReturns("generate_response", state, "END", "existing", state.response)
         ELSE IF ~SupervisorHasLlm(variant) \/ r = Raise
         THEN NodeRaises("generate_response", r)
         ELSE NodeReturns("generate_response", GenerateResponseUpdate(variant, state, r), "END", "composed", r)
    /\ UNCHANGED <<variant, chat_context, main_state, turns, turnlog, cache, discoveries>>

\* graph.invoke returned: DatabaseChat keeps the context, __main__ keeps the state
ReturnToCaller ==
    /\ pc = "END"
    /\ pc' = "idle"
    /\ chat_context' = IF variant = "supervisor" THEN Get(state, "context", chat_context) ELSE chat_context
    /\ main_state' = IF variant = "all_in_one" THEN state ELSE main_state
    /\ turnlog' = Append(turnlog, [question |-> state.question,
                                   before |-> chat_context,
                                   after |-> chat_context',
                                   composed |-> call.arg = "composed",
                                   answer |-> Get(state, "response", ""),
                                   raised |-> FALSE])
    /\ UNCHANGED <<variant, state, turns, trace, call, cache, discoveries>>

\* graph.invoke raised: DatabaseChat.start prints the error and reads the next
\* question; the __main__ script of all_in_one.py has no handler and ends
ExceptionToCaller ==
    /\ pc = "raised"
    /\ pc' = IF variant = "supervisor" THEN "idle" ELSE "crashed"
    /\ turnlog' = Append(turnlog, [question |-> state.question,
                                   before |-> chat_context,
                                   after |-> chat_context,
                                   composed |-> FALSE,
                                   answer |-> "",
                                   raised |-> TRUE])
    /\ UNCHANGED <<variant, state, chat_context, main_state, turns, trace, call, cache, discoveries>>

Next ==
    \/ GetResponse
    \/ ClassifyInput
    \/ DiscoverDatabase
    \/ CreatePlan
    \/ ExecutePlan
    \/ GenerateResponse
    \/ ReturnToCaller
    \/ ExceptionToCaller

Spec == Init /\ [][Next]_vars

\* ------------------------------------------- supervisor turns on a given plan
\* supervisor.py with the list returned by self.planner_agent.create_plan taken
\* as an input of SupervisorAgent.create_plan
DatabaseStep == <<"Database", ":", " ", "tables">>

GeneralStep == <<"General", ":", " ", "hello">>

PlannedLists ==
    {[i \in 1..n |-> DatabaseStep] : n \in 0..MaxDatabaseSteps}
      \cup {<<GeneralStep>> \o [i \in 1..n |-> DatabaseStep] : n \in 0..MaxDatabaseSteps}

\* what the user types at the prompt
TypedConfirmations == {<<"yes">>, <<"Yes">>, <<" ", "yes", " ">>, <<"no">>, <<>>}

NotAsked == <<"<not asked>">>

\* input(...).lower().strip()
Confirmation(typed) == Strip(Lower(typed))

InitSupervisor ==
    /\ variant = "supervisor"
    /\ pc = "idle"
    /\ state = EmptyDict
    /\ chat_context = InitialContext
    /\ main_state = EmptyDict
    /\ turns = 0
    /\ trace = <<>>
    /\ call = NoCall
    /\ turnlog = <<>>
    /\ cache = FileAbsent
    /\ discoveries = <<>>

SupervisorCreatePlan ==
    /\ pc = "create_plan"
    /\ \E plan \in PlannedLists :
         LET db_steps == SelectSeq(plan, LAMBDA step : StartsWith(step, <<"Database", ":">>))
             all_general == \A i \in 1..Len(plan) : StartsWith(plan[i], <<"General", ":">>)
             asks == ~all_general /\ Len(db_steps) > 3
         IN  \E typed \in IF asks THEN TypedConfirmations ELSE {NotAsked} :
                IF asks /\ Confirmation(typed) # <<"yes">>
                THEN NodeReturns("create_plan",
                                 Merge(state, [plan |-> NonePlan, response |-> RejectedText]),
                                 "generate_response", [asked |-> asks, typed |-> typed], plan)
                ELSE NodeReturns("create_plan", Upd(state, "plan", plan),
                                 "execute_plan", [asked |-> asks, typed |-> typed], plan)
    /\ UNCHANGED <<variant, chat_context, main_state, turns, turnlog, cache, discoveries>>

NextSupervisor ==
    \/ GetResponse
    \/ SupervisorCreatePlan
    \/ ExecutePlan
    \/ GenerateResponse
    \/ ReturnToCaller
    \/ ExceptionToCaller

SpecSupervisor == InitSupervisor /\ [][NextSupervisor]_vars

\* ------------------------------------------------ direct calls of the functions
\* execute_plan and merge_context called on their own, on any plan and any contexts
DirectSteps ==
    { <<"Database", ":", " ", "tables">>,
      <<"database", " ", ":", "count">>,
      <<"Research", ":", " ", "indexing">>,
      <<"Inference", ":", " ", "count">>,
      <<"General", ":", " ", "hello">>,
      <<"no colon here">> }

DirectPlans == {NonePlan} \cup UNION {[1..n -> DirectSteps] : n \in 0..MaxPlan}

Entries == {[question |-> q, response |-> "r1"] : q \in Questions}

Histories == UNION {[1..n -> Entries] : n \in 0..MaxHist}

MkContext(has_h, h, has_q, has_r) ==
    [k \in (IF has_h THEN {"history"} ELSE {}) \cup (IF has_q THEN {"last_question"} ELSE {})
            \cup (IF has_r THEN {"last_response"} ELSE {}) |->
        IF k = "history" THEN h ELSE IF k = "last_question" THEN "qa" ELSE "r2"]

DirectContexts ==
    {MkContext(has_h, h, has_q, has_r) : has_h \in BOOLEAN, h \in Histories, has_q \in BOOLEAN, has_r \in BOOLEAN}

InitCalls ==
    /\ variant \in {"supervisor", "all_in_one"}
    /\ pc = "call"
    /\ state = EmptyDict
    /\ chat_context = InitialContext
    /\ main_state = EmptyDict
    /\ turns = 0
    /\ trace = <<>>
    /\ call = NoCall
    /\ turnlog = <<>>
    /\ cache = FileAbsent
    /\ discoveries = <<>>

CallExecutePlan ==
    /\ pc = "call"
    /\ \E plan \in DirectPlans :
         \E o \in OutcomeChoices(variant, plan) :
            /\ state' = Merge([question |-> "qa", plan |-> plan],
                              [db_results |-> ExecutePlanResult(variant, plan, o)])
            /\ call' = [node |-> "execute_plan", raised |-> FALSE, arg |-> plan, out |-> o]
    /\ pc' = "called"
    /\ UNCHANGED <<variant, chat_context, main_state, turns, trace, turnlog, cache, discoveries>>

CallMergeContext ==
    /\ pc = "call"
    /\ variant = "supervisor"
    /\ \E old_context \in DirectContexts, new_context \in DirectContexts :
         call' = [node |-> "merge_context",
                  raised |-> MergeContextRaises(old_context, new_context),
                  arg |-> <<old_context, new_context>>,
                  out |-> IF MergeContextRaises(old_context, new_context)
                          THEN EmptyDict
                          ELSE MergeContext(old_context, new_context)]
    /\ pc' = "called"
    /\ UNCHANGED <<variant, state, chat_context, main_state, turns, trace, turnlog, cache, discoveries>>

\* PlannerAgent.create_plan of either file called on its own
CallCreatePlan ==
    /\ pc = "call"
    /\ \E completion \in Completions :
         call' = [node |-> "create_plan",
                  raised |-> PlannerCreatePlan(variant, completion) = RaisedPlan,
                  arg |-> completion,
                  out |-> PlannerCreatePlan(variant, completion)]
    /\ pc' = "called"
    /\ UNCHANGED <<variant, state, chat_context, main_state, turns, trace, turnlog, cache, discoveries>>

\* queries for the direct calls of research
QueryWords ==
    { <<"i", "n", "d", "e", "x", "i", "n", "g">>,
      <<"I", "n", "d", "e", "x", "i", "n", "g">>,
      <<"b", "e", "s", "t">>,
      <<"p", "r", "a", "c", "t", "i", "c", "e", "s">>,
      <<"f", "o", "r">>,
      <<"M", "y", "S", "Q", "L">>,
      <<"r", "e", "d", "e", "s", "i", "g", "n", "e", "d">>,
      <<"t", "a", "b", "l", "e", "s">> }

RECURSIVE JoinWords(_)
JoinWords(ws) ==
    IF ws = <<>> THEN <<>>
    ELSE IF Len(ws) = 1 THEN ws[1]
    ELSE ws[1] \o <<" ">> \o JoinWords(Tail(ws))

\* 'best practices for indexing'
ScenarioQuery == JoinWords(<<<<"b", "e", "s", "t">>, <<"p", "r", "a", "c", "t", "i", "c", "e", "s">>, <<"f", "o", "r">>, <<"i", "n", "d", "e", "x", "i", "n", "g">>>>)

ResearchQueries ==
    {[kind |-> "nonstr", chars |-> <<>>], [kind |-> "str", chars |-> ScenarioQuery]}
      \cup {[kind |-> "str", chars |-> JoinWords(ws)] :
                ws \in UNION {[1..n -> QueryWords] : n \in 0..MaxWords}}

\* ResearchAgent.research called on its own
CallResearch ==
    /\ pc = "call"
    /\ variant = "supervisor"
    /\ \E q \in ResearchQueries :
         call' = [node |-> "research",
                  raised |-> Research(q) = ResearchRaised,
                  arg |-> q,
                  out |-> Research(q)]
    /\ pc' = "called"
    /\ UNCHANGED <<variant, state, chat_context, main_state, turns, trace, turnlog, cache, discoveries>>

\* tables for the direct calls of parseJson
PlainColumn(name) == Column(name, "INTEGER", FALSE, NoReference)

TableCatalogue ==
    { Table(<<"artist">>, << PlainColumn(<<"id">>) >>),
      Table(<<"album">>, << PlainColumn(<<"id">>),
                            Column(<<"artist", "id">>, "INTEGER", TRUE, Reference(<<"artist">>, <<"id">>)) >>),
      Table(<<"album">>, << PlainColumn(<<"artist", "id">>) >>),
      Table(<<"album", "artist">>,
            << PlainColumn(<<"id">>),
               Column(<<"parent">>, "INTEGER", TRUE, Reference(<<"album", "artist">>, <<"id">>)) >>),
      Table(<<"track">>, << Column(<<"album">>, "TEXT", FALSE, Reference(<<"album">>, <<"id">>)) >>),
      Table(<<"genre">>, <<>>) }

DirectSchemas == UNION {[1..n -> TableCatalogue] : n \in 0..MaxTables}

\* DiscoveryAgent.parseJson called on its own, on a fenced JSON document
CallParseJson ==
    /\ pc = "call"
    /\ variant = "all_in_one"
    /\ \E data \in DirectSchemas :
         call' = [node |-> "parseJson",
                  raised |-> ParseJson(<<Fence, JsonLine(data), Fence>>) = ParseRaised,
                  arg |-> data,
                  out |-> ParseJson(<<Fence, JsonLine(data), Fence>>)]
    /\ pc' = "called"
    /\ UNCHANGED <<variant, state, chat_context, main_state, turns, trace, turnlog, cache, discoveries>>

\* graphs and questions for the direct calls of analyze_question_with_graph
AnalysisSchemas ==
    { << Table(<<"a", "l", "b", "u", "m", "s">>, << Column(<<"t", "i", "t", "l", "e">>, "TEXT", FALSE, NoReference),
             Column(<<"a", "r", "t", "i", "s", "t", "i", "d">>, "INTEGER", FALSE, Reference(<<"a", "r", "t", "i", "s", "t", "s">>, <<"i", "d">>)) >>),
         Table(<<"a", "r", "t", "i", "s", "t", "s">>, << Column(<<"i", "d">>, "INTEGER", FALSE, NoReference),
             Column(<<"n", "a", "m", "e">>, "TEXT", FALSE, NoReference) >>) >>,
      << Table(<<"a", "l", "b", "u", "m", "s">>, << Column(<<"t", "i", "t", "l", "e">>, "TEXT", FALSE, NoReference) >>),
         Table(<<"c", "l", "a", "s", "s">>, << Column(<<"i", "d">>, "INTEGER", FALSE, NoReference) >>) >>,
      << Table(<<"a", "l", "b", "u", "m", "s">>, << Column(<<"t", "i", "t", "l", "e">>, "TEXT", FALSE, NoReference),
             Column(<<"a", "r", "t", "i", "s", "t", "i", "d">>, "INTEGER", FALSE, Reference(<<"a", "r", "t", "i", "s", "t", "s">>, <<"i", "d">>)) >>),
         Table(<<"a", "r", "t", "i", "s", "t", "s">>, << Column(<<"i", "d">>, "INTEGER", FALSE, NoReference),
             Column(<<"n", "a", "m", "e">>, "TEXT", FALSE, NoReference) >>),
         Table(<<"c", "l", "a", "s", "s">>, << Column(<<"i", "d">>, "INTEGER", FALSE, NoReference) >>) >>,
      << Table(<<"t", "r", "a", "c", "k", "s">>, << Column(<<"a", "l", "b", "u", "m", "i", "d">>, "INTEGER", FALSE, Reference(<<"a", "l", "b", "u", "m", "s">>, <<"t", "i", "t", "l", "e">>)) >>),
         Table(<<"a", "l", "b", "u", "m", "s">>, << Column(<<"t", "i", "t", "l", "e">>, "TEXT", FALSE, NoReference),
             Column(<<"a", "r", "t", "i", "s", "t", "i", "d">>, "INTEGER", FALSE, Reference(<<"a", "r", "t", "i", "s", "t", "s">>, <<"i", "d">>)) >>),
         Table(<<"a", "r", "t", "i", "s", "t", "s">>, << Column(<<"i", "d">>, "INTEGER", FALSE, NoReference),
             Column(<<"n", "a", "m", "e">>, "TEXT", FALSE, NoReference) >>) >> }

QuestionWords ==
    { <<"A", "l", "b", "u", "m", "s">>,
      <<"a", "l", "b", "u", "m">>,
      <<"a", "r", "t", "i", "s", "t", "s">>,
      <<"t", "i", "t", "l", "e">>,
      <<"d", "e", "c", "l", "a", "r", "e">>,
      <<"t", "r", "a", "c", "k">> }

\* 'How many albums are in the albums table?'
ScenarioQuestion == JoinWords(<<<<"H", "o", "w">>, <<"m", "a", "n", "y">>, <<"a", "l", "b", "u", "m", "s">>, <<"a", "r", "e">>, <<"i", "n">>, <<"t", "h", "e">>, <<"a", "l", "b", "u", "m", "s">>, <<"t", "a", "b", "l", "e", "?">>>>)

AnalysisQuestions ==
    {ScenarioQuestion} \cup {JoinWords(ws) : ws \in UNION {[1..n -> QuestionWords] : n \in 0..MaxWords}}

CallAnalyze ==
    /\ pc = "call"
    /\ variant = "all_in_one"
    /\ \E data \in AnalysisSchemas, question \in AnalysisQuestions :
         \E analysis \in AnalyzeQuestionWithGraph(BuildGraph(data), question) :
            call' = [node |-> "analyze_question_with_graph",
                     raised |-> FALSE,
                     arg |-> [db_graph |-> BuildGraph(data), question |-> question],
                     out |-> analysis]
    /\ pc' = "called"
    /\ UNCHANGED <<variant, state, chat_context, main_state, turns, trace, turnlog, cache, discoveries>>

\* the constructors of DBAgent (db_agent.py) and InferenceAgent
\* (inference_agent.py, all_in_one.py), which end with self.test_connection()
AgentClasses == {"db_agent.DBAgent", "inference_agent.InferenceAgent", "all_in_one.InferenceAgent"}

\* what dbEngine.run does with the query of show_tables
EngineOutcomes == {"rows", "raises"}

\* run_query: the exception of the engine is logged and turned into a text
RunQuery(engine) ==
    IF engine = "raises"
    THEN [raised |-> FALSE, value |-> "Error executing query: boom", log |-> <<"Query execution failed: boom">>]
    ELSE [raised |-> FALSE, value |-> "rows", log |-> <<>>]

ShowTables(engine) == RunQuery(engine)

TestConnection(engine) ==
    IF ShowTables(engine).raised
    THEN [raised |-> TRUE, log |-> ShowTables(engine).log \o <<"Database connection failed: boom">>]
    ELSE [raised |-> FALSE, log |-> ShowTables(engine).log \o <<"Database connection successful">>]

\* __init__: the environment is read first, the connection is tested last
Construct(environment, engine) ==
    IF environment = "missing"
    THEN [raised |-> TRUE, error |-> "ValueError", log |-> <<>>]
    ELSE [raised |-> TestConnection(engine).raised,
          error |-> IF TestConnection(engine).raised THEN "boom" ELSE "",
          log |-> TestConnection(engine).log]

CallConstruct ==
    /\ pc = "call"
    /\ \E agent \in AgentClasses, environment \in {"set", "missing"}, engine \in EngineOutcomes :
         /\ variant = (IF agent = "all_in_one.InferenceAgent" THEN "all_in_one" ELSE "supervisor")
         /\ call' = [node |-> "__init__",
                     raised |-> Construct(environment, engine).raised,
                     arg |-> [agent |-> agent, environment |-> environment, engine |-> engine],
                     out |-> Construct(environment, engine)]
    /\ pc' = "called"
    /\ UNCHANGED <<variant, state, chat_context, main_state, turns, trace, turnlog, cache, discoveries>>

NextCalls ==
    \/ CallExecutePlan
    \/ CallMergeContext
    \/ CallCreatePlan
    \/ CallResearch
    \/ CallParseJson
    \/ CallAnalyze
    \/ CallConstruct

SpecCalls == InitCalls /\ [][NextCalls]_vars

\* ------------------------------------------------ direct calls of discover
\* DiscoveryAgent.discover of all_in_one.py called again and again, by
\* discover_database or as the VISUALISE_SCHEMA tool, and the cache file deleted
InitDiscover ==
    /\ variant = "all_in_one"
    /\ pc = "discover"
    /\ state = EmptyDict
    /\ chat_context = InitialContext
    /\ main_state = EmptyDict
    /\ turns = 0
    /\ trace = <<>>
    /\ call = NoCall
    /\ turnlog = <<>>
    /\ cache \in InitialFiles
    /\ discoveries = <<>>

CallDiscover ==
    /\ pc = "discover"
    /\ turns < MaxCalls
    /\ \E args \in DiscoverArgs, response \in Responses, save \in SaveOutcomes :
         LET d == Discover(args, cache, response, save)
         IN  /\ cache' = d.file
             /\ discoveries' = Append(discoveries, Discovery(args, cache, d))
             /\ call' = [node |-> "discover", raised |-> d.raised, arg |-> args, out |-> d.out]
    /\ turns' = turns + 1
    /\ UNCHANGED <<variant, pc, state, chat_context, main_state, trace, turnlog>>

\* the cache file is removed
DeleteCache ==
    /\ pc = "discover"
    /\ cache # FileAbsent
    /\ cache' = FileAbsent
    /\ discoveries' = Append(discoveries,
                             [deleted |-> TRUE, args |-> <<>>, before |-> cache, after |-> FileAbsent,
                              prompted |-> FALSE, raised |-> FALSE, error |-> "", out |-> NoneGraph])
    /\ UNCHANGED <<variant, pc, state, chat_context, main_state, turns, trace, call, turnlog>>

NextDiscover == CallDiscover \/ DeleteCache

SpecDiscover == InitDiscover /\ [][NextDiscover]_vars

\* ================================================================ properties
IsPrefix(a, b) == Len(a) <= Len(b) /\ SubSeq(b, 1, Len(a)) = a

StepsOf(blocks) == [i \in 1..Len(blocks) |-> blocks[i].step]

\* the step kinds a deployment dispatches
Dispatched(v, step) ==
    IF v = "supervisor"
    THEN IsType(step, "database") \/ IsType(step, "research") \/ IsType(step, "general")
    ELSE IsType(step, "inference") \/ IsType(step, "general")

ExecutePlanRan == call.node = "execute_plan" /\ ~call.raised

\* C1: after execute_plan ran on the plan create_plan returned, db_results holds
\* one 'Step:' block per step of the plan, in plan order.
C1_OneBlockPerStepInOrder ==
    (ExecutePlanRan /\ pc = "generate_response")
        => /\ state.db_results.kind = "blocks"
           /\ StepsOf(state.db_results.blocks) = state.plan

\* C2: when the agent call of step i raises, step i is recorded as an 'Error:'
\* block carrying the exception message, every later step the deployment
\* dispatches is recorded, and the recorded steps are those of a failure-free run.
C2_FailureIsolated ==
    (ExecutePlanRan /\ call.arg # NonePlan) =>
        LET plan == call.arg
            o == call.out
            blocks == state.db_results.blocks
            ok == [i \in 1..Len(plan) |-> [raised |-> FALSE, text |-> o[i].text]]
        IN  \A i \in 1..Len(plan) :
               o[i].raised =>
                  /\ state.db_results.kind = "blocks"
                  /\ Cardinality({b \in 1..Len(blocks) :
                         /\ blocks[b].step = plan[i]
                         /\ blocks[b].tag = "Error"
                         /\ Last(blocks[b].text) = o[i].text})
                       = Cardinality({k \in 1..Len(plan) :
                             plan[k] = plan[i] /\ o[k].raised /\ o[k].text = o[i].text})
                  /\ \A j \in (i + 1)..Len(plan) :
                        Dispatched(variant, plan[j]) =>
                           Cardinality({b \in 1..Len(blocks) : blocks[b].step = plan[j]})
                             = Cardinality({k \in 1..Len(plan) : plan[k] = plan[j]})
                  /\ StepsOf(blocks) = StepsOf(AllResults(variant, plan, ok))

C2_Witness ==
    /\ ExecutePlanRan
    /\ call.arg # NonePlan
    /\ \E i \in 1..Len(call.arg) :
          /\ call.out[i].raised
          /\ \E j \in (i + 1)..Len(call.arg) : Dispatched(variant, call.arg[j]) /\ call.arg[j] # call.arg[i]

\* C3: across turns the history DatabaseChat holds before a step is a prefix of
\* the history it holds after the step.
C3_HistoryAppendOnly == [][IsPrefix(chat_context.history, chat_context'.history)]_vars

C3_Witness ==
    \E k \in 1..Len(turnlog) :
        /\ turnlog[k].composed
        /\ turnlog[k].before.history # <<>>
        /\ Len(turnlog[k].after.history) > Len(turnlog[k].before.history)

\* C4: two consecutive completed turns that ask the same question lengthen the
\* stored history by at most 1 in total.
C4_SameQuestionAddsAtMostOne ==
    \A k \in 1..(Len(turnlog) - 1) :
        (/\ ~turnlog[k].raised
         /\ ~turnlog[k + 1].raised
         /\ turnlog[k].question = turnlog[k + 1].question)
            => Len(turnlog[k + 1].after.history) - Len(turnlog[k].before.history) <= 1

\* C5: a completed turn whose question differs from last_question leaves the
\* prior history followed by exactly one new entry {question, answer}.
C5_ExactlyOneEntryAppended ==
    \A k \in 1..Len(turnlog) :
        (~turnlog[k].raised /\ turnlog[k].question # turnlog[k].before.last_question)
            => turnlog[k].after.history
                 = Append(turnlog[k].before.history,
                          [question |-> turnlog[k].question, response |-> turnlog[k].answer])

\* C6: after a turn in which generate_response composed an answer, last_question
\* is the turn's question and last_response is the answer returned in that turn.
C6_LastPairIsThisTurn ==
    \A k \in 1..Len(turnlog) :
        turnlog[k].composed
            => /\ turnlog[k].after.last_question = turnlog[k].question
               /\ turnlog[k].after.last_response = turnlog[k].answer

\* C7: merge_context(old, new) never raises; the merged history is old.history
\* when new.history is empty or ends with the last entry of old.history, else
\* old.history followed by new.history; last_question and last_response come from
\* new when present, else from old.
C7_MergeContextTotal ==
    call.node = "merge_context" =>
        LET old == call.arg[1]
            new == call.arg[2]
            oh == Get(old, "history", <<>>)
            nh == Get(new, "history", <<>>)
        IN  /\ ~call.raised
            /\ call.out.history
                 = IF nh = <<>> \/ (oh # <<>> /\ Last(nh) = Last(oh)) THEN oh ELSE oh \o nh
            /\ call.out.last_question
                 = IF "last_question" \in DOMAIN new THEN new.last_question
                   ELSE Get(old, "last_question", "")
            /\ call.out.last_response
                 = IF "last_response" \in DOMAIN new THEN new.last_response
                   ELSE Get(old, "last_response", "")

\* C8: generate_response never raises to its caller.
C8_GenerateResponseNeverRaises == ~(call.node = "generate_response" /\ call.raised)

\* C9: create_plan never raises, and when the completion call or the parsing of
\* its output fails it returns the one-step plan
\* 'General: Error occurred while creating plan'.
C9_CreatePlanFallsBack ==
    (Len(trace) > 0 /\ Last(trace) = "create_plan") =>
        /\ call.node = "create_plan"
        /\ ~call.raised
        /\ (~PlannerHasLlm(variant) \/ call.arg # "text") => (call.out = FallbackError /\ state.plan = FallbackError)

C9_Witness ==
    /\ call.node = "create_plan"
    /\ ~call.raised
    /\ call.arg = "raise"
    /\ state.plan = FallbackError

\* C10: every step of the plan create_plan returns is '<Kind>: <content>' with
\* Kind a supported tag and content that is not empty after trimming.
C10_StepsWellFormed ==
    (call.node = "create_plan" /\ ~call.raised) =>
        \A i \in 1..Len(call.out) :
            /\ StartsWith(call.out[i], <<"Inference", ":">>) \/ StartsWith(call.out[i], <<"General", ":">>)
            /\ Strip(Split1(call.out[i])[2]) # <<>>

\* ---------------------------------------------------------------- plan text
StepKinds == {"Database", "Inference", "Research", "General"}

\* a line of the form '<Kind>: <content>' with content that is not blank
IsKindContentLine(l) ==
    \E kind \in StepKinds : StartsWith(l, <<kind, ":">>) /\ Strip(Split1(l)[2]) # <<>>

InSeq(x, s) == \E j \in 1..Len(s) : s[j] = x

\* create_plan obtained a completion text and parsed it
CreatePlanParsed ==
    call.node = "create_plan" /\ ~call.raised /\ PlannerHasLlm(variant) /\ call.arg.kind = "text"

\* C11: every line '<Kind>: <content>' of the completion text, Kind one of
\* Database, Inference, Research, General and content not empty, is a step of
\* the plan create_plan returns, unchanged.
C11_KindContentLinesRetained ==
    CreatePlanParsed =>
        \A i \in 1..Len(call.arg.lines) :
            IsKindContentLine(Strip(call.arg.lines[i])) => InSeq(Strip(call.arg.lines[i]), call.out)

\* C12: the steps of the returned plan that are lines of the completion text
\* stand in the plan in the order of their lines, for every interleaving of kinds.
C12_SourceOrderPreserved ==
    CreatePlanParsed =>
        LET stripped == [i \in 1..Len(call.arg.lines) |-> Strip(call.arg.lines[i])]
            retained == SelectSeq(call.out, LAMBDA step : InSeq(step, stripped))
        IN  retained = SelectSeq(stripped, LAMBDA l : InSeq(l, retained))

\* the lines create_plan recognizes as steps
RecognizedSteps(lines) == SelectSeq(CleanLines(lines), LAMBDA l : IsInferenceStep(l) \/ IsGeneralStep(l))

\* C13: when the completion text holds no recognized step, create_plan returns
\* exactly the one General step with the fixed clarification message; the plan
\* create_plan returns is never empty.
C13_FallbackWhenNoStep ==
    (call.node = "create_plan" /\ ~call.raised) =>
        /\ call.out # <<>>
        /\ (PlannerHasLlm(variant) /\ call.arg.kind = "text" /\ RecognizedSteps(call.arg.lines) = <<>>)
              => call.out = FallbackClarify

C13_Witness ==
    /\ call.node = "create_plan"
    /\ ~call.raised
    /\ PlannerHasLlm(variant)
    /\ call.arg.kind = "text"
    /\ \E i \in 1..Len(call.arg.lines) : StartsWith(call.arg.lines[i], <<"Database", ":">>)
    /\ RecognizedSteps(call.arg.lines) = <<>>
    /\ call.out = FallbackClarify

\* C14: execute_plan stores exactly the text 'No results were generated as no
\* valid steps were found.' when the plan has no step, and only then.
C14_NoStepsTextIffEmptyPlan ==
    (ExecutePlanRan /\ pc = "generate_response") =>
        ((state.db_results.kind = "text" /\ state.db_results.text = NoStepsText) <=> state.plan = <<>>)

\* a collaborator (completion service, query agent, discovery) failed in this turn
CollaboratorFailed ==
    /\ call.raised
    /\ call.node # "merge_context"
    /\ (call.arg = Raise \/ call.arg = "raise" \/ call.node = "discover_database")

\* C15: a turn in which the collaborators return ends after generate_response
\* with a response in the state, having run create_plan, then execute_plan if
\* and only if the plan is not None, then generate_response, each once.
C15_NodesRunInOrder ==
    (pc \in {"END", "raised"} /\ ~CollaboratorFailed) =>
        /\ pc = "END"
        /\ trace \in { <<"create_plan", "execute_plan", "generate_response">>,
                        <<"create_plan", "generate_response">> }
        /\ InSeq("execute_plan", trace) <=> ~PlanIsNone(state)
        /\ "response" \in DOMAIN state

\* ----------------------------------------------------------------- research
ResearchCalled == call.node = "research" /\ call.arg.kind = "str"

\* the '_'-separated fragments of the keys, key by key in dictionary order
KeyFragments ==
    << {<<"s", "q", "l">>},
       {<<"d", "a", "t", "a", "b", "a", "s", "e">>, <<"d", "e", "s", "i", "g", "n">>},
       {<<"b", "e", "s", "t">>, <<"p", "r", "a", "c", "t", "i", "c", "e", "s">>},
       {<<"p", "e", "r", "f", "o", "r", "m", "a", "n", "c", "e">>},
       {<<"n", "o", "r", "m", "a", "l", "i", "z", "a", "t", "i", "o", "n">>},
       {<<"i", "n", "d", "e", "x", "i", "n", "g">>} >>

FragmentInQuery(i, query) == \E f \in KeyFragments[i] : Contains(LowerChars(query), f)

Occurrences(x, s) == Cardinality({j \in 1..Len(s) : s[j] = x})

C17_ResearchMatchesByFragment ==
    call.node = "research" =>
        /\ ~call.raised
        /\ call.arg.kind = "str" =>
              /\ \A i \in 1..Len(mock_knowledge_base) :
                    Occurrences(mock_knowledge_base[i].info, call.out)
                      = IF FragmentInQuery(i, call.arg.chars) THEN 1 ELSE 0
              /\ \A i, j \in 1..Len(mock_knowledge_base) :
                    (i < j /\ FragmentInQuery(i, call.arg.chars) /\ FragmentInQuery(j, call.arg.chars))
                       => \E a, b \in 1..Len(call.out) :
                             /\ a < b
                             /\ call.out[a] = mock_knowledge_base[i].info
                             /\ call.out[b] = mock_knowledge_base[j].info
              /\ InSeq(NoInformation, call.out)
                    <=> ~\E i \in 1..Len(mock_knowledge_base) : FragmentInQuery(i, call.arg.chars)

\* a capitalised word and a word that merely contains a fragment both match
C17_Witness ==
    /\ ResearchCalled
    /\ call.arg.chars = JoinWords(<<<<"r", "e", "d", "e", "s", "i", "g", "n", "e", "d">>, <<"M", "y", "S", "Q", "L">>>>)
    /\ call.out = <<ResearchHeader, ResearchRule, InfoSql, InfoDatabaseDesign, ResearchRule>>

\* ---------------------------------------------------------------- discovery
\* the logged discover calls made without an argument
PlainCall(k) == ~discoveries[k].deleted /\ discoveries[k].args = <<>>

CacheHit(k) == PlainCall(k) /\ ~discoveries[k].prompted /\ ~discoveries[k].raised

DeletedBetween(i, j) == \E d \in (i + 1)..(j - 1) : discoveries[d].deleted

ReadableCacheReturned ==
    \A k \in 1..Len(discoveries) :
        (PlainCall(k) /\ discoveries[k].before.kind = "pickle")
            => /\ ~discoveries[k].raised
               /\ ~discoveries[k].prompted
               /\ discoveries[k].after = discoveries[k].before
               /\ discoveries[k].out.nodes = discoveries[k].before.blob._node
               /\ \A n, m \in DOMAIN discoveries[k].out.nodes :
                     {n, m} \in discoveries[k].out.edges <=> m \in discoveries[k].before.blob._adj[n]

\* C18 as stated: a discover call that finds a readable cached graph returns it
\* without issuing the discovery prompt and without writing the file, and the
\* prompt is issued at most once between two deletions of the file.
C18_PromptAtMostOnce ==
    /\ ReadableCacheReturned
    /\ \A i, j \in 1..Len(discoveries) :
          (i < j /\ discoveries[i].prompted /\ discoveries[j].prompted) => DeletedBetween(i, j)

\* C18: a discover call that finds a readable cached graph returns it without
\* issuing the discovery prompt and without writing the file; a call that
\* finds none issues the prompt, and after a call that saved its graph no call
\* issues the prompt until the file is deleted.
C18_PromptOnlyWithoutReadableCache ==
    /\ ReadableCacheReturned
    /\ \A k \in 1..Len(discoveries) :
          (PlainCall(k) /\ discoveries[k].before.kind # "pickle") => discoveries[k].prompted
    /\ \A i, j \in 1..Len(discoveries) :
          (i < j /\ discoveries[i].after.kind = "pickle" /\ discoveries[j].prompted)
              => DeletedBetween(i, j)

C18_Witness ==
    \E i, j \in 1..Len(discoveries) :
        /\ i < j
        /\ CacheHit(i) /\ discoveries[i].before.kind = "pickle"
        /\ CacheHit(j) /\ discoveries[j].out = discoveries[i].out
        /\ discoveries[j].after = discoveries[i].before

\* C19: a discover call with forceRefresh = true and a cached graph in place
\* issues the discovery prompt and, when it returns, returns the graph built
\* from the response, the one the file then holds.
C19_ForceRefreshRediscovers ==
    \A k \in 1..Len(discoveries) :
        (~discoveries[k].deleted /\ discoveries[k].args = <<"forceRefresh">>
           /\ discoveries[k].before.kind = "pickle")
            => /\ discoveries[k].prompted
               /\ ~discoveries[k].raised
                     => /\ discoveries[k].out # NoneGraph
                        /\ discoveries[k].after.kind = "pickle"
                              => discoveries[k].after = FilePickle(discoveries[k].out)

\* C20: when a discover call builds its graph from the response and saves it,
\* and the next call returns the cached graph, the two graphs have the same
\* nodes, the same node attributes and the same edges.
C20_RoundTrip ==
    \A k \in 1..(Len(discoveries) - 1) :
        (/\ PlainCall(k) /\ discoveries[k].prompted /\ ~discoveries[k].raised
         /\ CacheHit(k + 1))
            => /\ DOMAIN discoveries[k + 1].out.nodes = DOMAIN discoveries[k].out.nodes
               /\ \A n \in DOMAIN discoveries[k].out.nodes :
                     discoveries[k + 1].out.nodes[n] = discoveries[k].out.nodes[n]
               /\ discoveries[k + 1].out.edges = discoveries[k].out.edges

C20_Witness ==
    \E k \in 1..(Len(discoveries) - 1) :
        /\ PlainCall(k) /\ discoveries[k].prompted /\ ~discoveries[k].raised
        /\ CacheHit(k + 1)
        /\ discoveries[k].out = BuildGraph(SchemaForeignKey)
        /\ {5, 6} \in discoveries[k + 1].out.edges

\* C21: when the output of the discovery prompt is no JSON document, discover
\* raises, returns no graph and leaves the cache file as it was, and the next
\* discover call issues the discovery prompt again.
C21_MalformedJsonIsFatal ==
    \A k \in 1..Len(discoveries) :
        discoveries[k].error = "JSONDecodeError"
            => /\ discoveries[k].raised
               /\ discoveries[k].out = NoneGraph
               /\ discoveries[k].after = discoveries[k].before
               /\ discoveries[k].after.kind # "pickle"
               /\ (k < Len(discoveries) /\ PlainCall(k + 1)) => discoveries[k + 1].prompted

C21_Witness ==
    \E k \in 1..(Len(discoveries) - 1) :
        /\ discoveries[k].error = "JSONDecodeError"
        /\ discoveries[k].before = FilePartial
        /\ PlainCall(k + 1)
        /\ discoveries[k + 1].prompted
        /\ discoveries[k + 1].after.kind = "pickle"

\* -------------------------------------------------------------- schema graph
ParseJsonReturned == call.node = "parseJson" /\ ~call.raised

TableNodes(graph) == {n \in DOMAIN graph.nodes : "tableName" \in DOMAIN graph.nodes[n]}

ColumnNodes(graph) == {n \in DOMAIN graph.nodes : "columnName" \in DOMAIN graph.nodes[n]}

Neighbors(graph, n) == {m \in DOMAIN graph.nodes : {n, m} \in graph.edges}

RECURSIVE SumLen(_)
SumLen(tables) == IF tables = <<>> THEN 0 ELSE Len(Head(tables).columns) + SumLen(Tail(tables))

\* C22: the graph parseJson returns has one node per table and one node per
\* column, no node is both, and every column node is adjacent to the node of
\* the table that owns it and to no other table node.
C22_OneNodePerTableAndColumn ==
    ParseJsonReturned =>
        LET data == call.arg
            graph == call.out
        IN  /\ Cardinality(TableNodes(graph)) = Len(data)
            /\ Cardinality(ColumnNodes(graph)) = SumLen(data)
            /\ TableNodes(graph) \cap ColumnNodes(graph) = {}
            /\ TableNodes(graph) \cup ColumnNodes(graph) = DOMAIN graph.nodes
            /\ \A c \in ColumnNodes(graph) : Cardinality(Neighbors(graph, c) \cap TableNodes(graph)) = 1
            /\ \A t \in TableNodes(graph) : Neighbors(graph, t) \subseteq ColumnNodes(graph)
            /\ \E owner \in [TableNodes(graph) -> 1..Len(data)] :
                  /\ \A t, u \in TableNodes(graph) : owner[t] = owner[u] => t = u
                  /\ \A t \in TableNodes(graph) :
                        /\ graph.nodes[t].tableName = data[owner[t]].tableName
                        /\ Cardinality(Neighbors(graph, t)) = Len(data[owner[t]].columns)
                        /\ \A i \in 1..Len(data[owner[t]].columns) :
                              \E c \in Neighbors(graph, t) :
                                 /\ graph.nodes[c].columnName = data[owner[t]].columns[i].columnName
                                 /\ graph.nodes[c].columnType = data[owner[t]].columns[i].columnType
                                 /\ graph.nodes[c].isOptional = data[owner[t]].columns[i].isOptional

C22_Witness ==
    /\ ParseJsonReturned
    /\ Len(call.arg) = 2
    /\ call.arg[1].tableName # call.arg[2].tableName
    /\ SumLen(call.arg) = 3
    /\ \E c, d \in ColumnNodes(call.out) : c # d /\ {c, d} \in call.out.edges

\* the (table name, column name) pairs of the schema are pairwise distinct
PairsDistinct(data) ==
    \A k, m \in 1..Len(FlatColumns(data)) :
        (/\ data[FlatColumns(data)[k].table].tableName = data[FlatColumns(data)[m].table].tableName
         /\ FlatColumns(data)[k].column.columnName = FlatColumns(data)[m].column.columnName) => k = m

\* the flat index of column `c` of table `t`
ColumnOf(data, t, c) ==
    {m \in 1..Len(FlatColumns(data)) :
        /\ data[FlatColumns(data)[m].table].tableName = t
        /\ FlatColumns(data)[m].column.columnName = c}

\* C26: in a schema whose (table, column) pairs are pairwise distinct, for
\* every foreign key on column k referencing column c2 of table t2 the graph
\* has the edge between the node created for column k and the node created
\* for (t2, c2), and the edges between column nodes are exactly these.
C26_ForeignKeyEdgeJoinsReferencedColumns ==
    (ParseJsonReturned /\ PairsDistinct(call.arg)) =>
        LET data == call.arg
            flat == FlatColumns(data)
            declared == {{ColumnId(data, k), ColumnId(data, m)} :
                            k \in {x \in 1..Len(flat) : ~flat[x].column.foreignKeyReference.none},
                            m \in 1..Len(flat)}
            wanted == {e \in declared :
                          \E k \in 1..Len(flat) :
                             /\ ~flat[k].column.foreignKeyReference.none
                             /\ \E m \in ColumnOf(data, flat[k].column.foreignKeyReference.table,
                                                    flat[k].column.foreignKeyReference.column) :
                                   e = {ColumnId(data, k), ColumnId(data, m)}}
        IN  {e \in call.out.edges : e \subseteq ColumnNodes(call.out)} = wanted

Analyzed == pc = "called" /\ call.node = "analyze_question_with_graph"

MatchedNodes(graph, analysis) ==
    {n \in DOMAIN graph.nodes :
        /\ "tableName" \in DOMAIN graph.nodes[n]
        /\ \E i \in 1..Len(analysis.tables) : analysis.tables[i].name = graph.nodes[n].tableName}

Renders(graph, path, named) ==
    /\ Len(named) = Len(path)
    /\ \A i \in 1..Len(path) :
          IF "tableName" \in DOMAIN graph.nodes[path[i]]
          THEN named[i] = [label |-> "Table", name |-> graph.nodes[path[i]].tableName]
          ELSE named[i] = [label |-> "Column", name |-> graph.nodes[path[i]].columnName]

PathsBetween(graph, analysis, s, t) ==
    {i \in 1..Len(analysis.possible_paths) :
        LET named == analysis.possible_paths[i]
        IN  /\ named # <<>>
            /\ named[1].label = "Table"
            /\ named[Len(named)].label = "Table"
            /\ {named[1].name, named[Len(named)].name} = {graph.nodes[s].tableName, graph.nodes[t].tableName}}

\* C23: possible_paths holds, for every pair of distinct matched tables that
\* the graph connects, exactly one path, a shortest one rendered as table and
\* column labels between the two tables; a pair the graph does not connect
\* gets no path, and a single matched table leaves possible_paths empty
C23_OneShortestPathPerConnectedPair ==
    Analyzed =>
        LET graph == call.arg.db_graph
            matched == MatchedNodes(graph, call.out)
        IN  /\ \A s \in matched, t \in matched :
                  s < t =>
                     IF HasPath(graph, s, t)
                     THEN /\ Cardinality(PathsBetween(graph, call.out, s, t)) = 1
                          /\ \A i \in PathsBetween(graph, call.out, s, t) :
                                /\ Len(call.out.possible_paths[i]) = Distance(graph, s, t) + 1
                                /\ \E p \in ShortestPaths(graph, s, t) :
                                      Renders(graph, p, call.out.possible_paths[i])
                     ELSE PathsBetween(graph, call.out, s, t) = {}
            /\ Len(call.out.possible_paths)
                  = Cardinality({pair \in matched \X matched :
                                    pair[1] < pair[2] /\ HasPath(graph, pair[1], pair[2])})
            /\ Len(call.out.tables) = 1 => call.out.possible_paths = <<>>

\* two matched tables joined through a foreign key, with their path reported
C23_Witness ==
    /\ Analyzed
    /\ Len(call.out.tables) = 2
    /\ Len(call.out.possible_paths) = 1
    /\ Len(call.out.possible_paths[1]) = 4
    /\ call.out.possible_paths[1][2].label = "Column"

\* C24: the columns field of the analysis reports every column of the graph
\* whose lower-cased name occurs in the lower-cased question
C24_ColumnsFieldReportsMentionedColumns ==
    Analyzed =>
        \A n \in DOMAIN call.arg.db_graph.nodes :
            ( /\ "columnName" \in DOMAIN call.arg.db_graph.nodes[n]
              /\ Contains(LowerChars(call.arg.question),
                          LowerChars(call.arg.db_graph.nodes[n].columnName)) )
            => \E i \in 1..Len(call.out.columns) :
                  call.out.columns[i].name = call.arg.db_graph.nodes[n].columnName

SingularOf(name) == IF name # <<>> /\ name[Len(name)] = "s" THEN SubSeq(name, 1, Len(name) - 1) ELSE name

\* C25: a table is reported relevant exactly when its lower-cased name, that
\* name with one trailing 's' removed, or that name followed by 's' occurs in
\* the lower-cased question
C25_TableRelevantIffNameSingularOrPlural ==
    Analyzed =>
        \A n \in DOMAIN call.arg.db_graph.nodes :
            "tableName" \in DOMAIN call.arg.db_graph.nodes[n] =>
                LET name == LowerChars(call.arg.db_graph.nodes[n].tableName)
                    q == LowerChars(call.arg.question)
                IN  (\E i \in 1..Len(call.out.tables) :
                        call.out.tables[i].name = call.arg.db_graph.nodes[n].tableName)
                    <=> \/ Contains(q, name)
                        \/ Contains(q, SingularOf(name))
                        \/ Contains(q, name \o <<"s">>)

\* C27: from the initial context, after any sequence of turns, whenever the
\* history of the conversation context is not empty, last_question and
\* last_response are the question and the response of its last entry
C27_LastFieldsMatchLastEntry ==
    chat_context.history # <<>> =>
        /\ chat_context.last_question = Last(chat_context.history).question
        /\ chat_context.last_response = Last(chat_context.history).response

\* a composed turn, then a turn repeating the question, then a turn that raised
C27_Witness ==
    /\ Len(turnlog) = 3
    /\ turnlog[1].composed
    /\ ~turnlog[2].raised /\ turnlog[2].question = turnlog[1].question
    /\ turnlog[2].after = turnlog[2].before
    /\ turnlog[3].raised
    /\ chat_context.history # <<>>
    /\ pc = "idle"

DatabaseStepCount(plan) == Cardinality({i \in DOMAIN plan : StartsWith(plan[i], <<"Database", ":">>)})

PlanCreated == call.node = "create_plan" /\ ~call.raised

\* the turn whose plan was rejected, from create_plan's return to the next question
PlanRejected == "plan" \in DOMAIN state /\ state.plan = NonePlan /\ pc \in {"generate_response", "END", "idle"}

RejectedTurnFrame ==
    PlanRejected =>
        /\ \A i \in 1..Len(trace) : trace[i] # "execute_plan"
        /\ state.response = RejectedText
        /\ pc # "idle" => state.context = chat_context
        /\ pc = "END" => call.node = "generate_response" /\ call.arg = "existing"
        /\ pc = "idle" =>
              /\ Last(turnlog).answer = RejectedText
              /\ ~Last(turnlog).composed
              /\ Last(turnlog).after = Last(turnlog).before
              /\ chat_context = Last(turnlog).before

C30_FailedConnectionRaises ==
    (pc = "called" /\ call.node = "__init__"
       /\ call.arg.environment = "set" /\ call.arg.engine = "raises")
    => /\ call.raised
       /\ \A i \in 1..Len(call.out.log) : call.out.log[i] # "Database connection successful"

====
